---- MODULE Spec2Model ----
(***************************************************************************)
(* Seejeh 7x7 rules engine (src/lib/rules.ts).  The engine is a set of     *)
(* pure functions from a GameState to a new GameState; `state` is the game *)
(* state the caller currently holds.                                       *)
(***************************************************************************)
EXTENDS Integers, Sequences, FiniteSets, TLC

VARIABLE state

vars == <<state>>

\* ---------------------------------------------------------------------------
\* Program constants
\* ---------------------------------------------------------------------------
BOARD_SIZE == 7
STONES_PER_PLAYER == 24
WIN_THRESHOLD == 7
REPETITION_THRESHOLD == 6
INSUFFICIENT_TOTAL == 6

\* ---------------------------------------------------------------------------
\* Bounds of the model
\* ---------------------------------------------------------------------------
\* longest moveHistory explored
MaxMoves == 3
\* longest moveHistory explored while more than OpeningStones stones stand on
\* the board
OpeningMoves == 1
OpeningStones == 16
\* calls that change the board of a game with a result recorded or a stalemate
\* offer pending are explored while moveHistory (in placement: the number of
\* stones on the board) is shorter than this
AfterEndMoves == 2
\* offerStalemate, rejectStalemate and resignGame are explored while
\* moveHistory (in placement: the number of stones on the board) is shorter
\* than this
AdminMoves == 1
\* stones of a blocked player offered for removal, in row-major order
RemovalChoices == 2
\* applyPlacement calls other than "next free cell(s), at most two per turn"
\* are explored while the player to place has at most this many stones left
TailStones == 1
\* longest moveHistory explored from shuttlePosition
ShuttleMoves == 8
\* longest moveHistory explored from searchPosition
SearchMoves == 4
\* longest line of Dark stones on an arm of crossPosition
MaxArm == 2
\* deepest search run: the configurations of DIFFICULTY_CONFIGS up to this depth
SearchDepth == 2

\* the free cells, in row-major order, among which a placement turn chooses
\* its two cells
PlacementChoices == 3
\* the opening turns of a placement in which the two cells are chosen; later
\* turns take the first two free cells
PlacementVaried == 3
\* calls of checkForAITurn that can be due at once in the store
MaxTimers == 1
\* stones placed and moves made from a state of the store that are followed
StoreSteps == 2
\* outcomes of one getBestAIMove that are followed
AIChoices == 2

\* ---------------------------------------------------------------------------
\* Types
\* ---------------------------------------------------------------------------
Players == {"Light", "Dark"}
Cells == (0..(BOARD_SIZE - 1)) \X (0..(BOARD_SIZE - 1))
\* an absent optional Cell (chainOrigin?: Cell, removeCell?: Cell, cell2)
undefinedCell == <<-1, -1>>
Center == <<BOARD_SIZE \div 2, BOARD_SIZE \div 2>>
noReason == [type |-> "undefined"]

other(player) == IF player = "Light" THEN "Dark" ELSE "Light"

Range(seq) == {seq[i] : i \in 1..Len(seq)}

RECURSIVE Flatten(_)
Flatten(seqs) == IF seqs = <<>> THEN <<>> ELSE Head(seqs) \o Flatten(Tail(seqs))

emptyBoard == [cell \in Cells |-> "null"]

noHash == [board |-> emptyBoard, current |-> "undefined", phase |-> "undefined"]

defaultVariant ==
  [firstMoveMustEnterCenter |-> FALSE, antiShuttle |-> FALSE, blockadeOneRemoval |-> TRUE]

\* initialState7x7({ antiShuttle: true })
shuttleVariant == [defaultVariant EXCEPT !.antiShuttle = TRUE]

\* initialState7x7({ firstMoveMustEnterCenter: true })
centerFirstVariant == [defaultVariant EXCEPT !.firstMoveMustEnterCenter = TRUE]

\* initialState7x7({ blockadeOneRemoval: false })
noRemovalVariant == [defaultVariant EXCEPT !.blockadeOneRemoval = FALSE]

initialState7x7(variant) ==
  [board |-> emptyBoard,
   current |-> "Light",
   phase |-> "placement",
   stonesToPlace |-> [p \in Players |-> STONES_PER_PLAYER],
   moveHistory |-> <<>>,
   variant |-> variant,
   placementCount |-> 0,
   capturedLastMove |-> <<>>,
   stalemateOffers |-> [p \in Players |-> FALSE],
   moveRepetition |-> 0,
   chainOrigin |-> undefinedCell,
   winner |-> "undefined",
   winReason |-> noReason,
   lastBoardHash |-> noHash]

\* ---------------------------------------------------------------------------
\* Geometry
\* ---------------------------------------------------------------------------
isCenter(cell) == cell[1] = BOARD_SIZE \div 2 /\ cell[2] = BOARD_SIZE \div 2

inBounds(cell) ==
  cell[1] >= 0 /\ cell[1] < BOARD_SIZE /\ cell[2] >= 0 /\ cell[2] < BOARD_SIZE

\* up, down, left, right
directions == << <<-1, 0>>, <<1, 0>>, <<0, -1>>, <<0, 1>> >>

step(cell, dir) == <<cell[1] + dir[1], cell[2] + dir[2]>>

neighbors(cell) == SelectSeq([i \in 1..4 |-> step(cell, directions[i])], inBounds)

\* the cells in the order of the nested r, c loops
rowMajor == [i \in 1..(BOARD_SIZE * BOARD_SIZE) |->
               <<(i - 1) \div BOARD_SIZE, (i - 1) % BOARD_SIZE>>]

countStones(s, player) == Cardinality({cell \in Cells : s.board[cell] = player})

\* ---------------------------------------------------------------------------
\* Legality
\* ---------------------------------------------------------------------------
placementsFor(s, player) ==
  IF s.phase # "placement" THEN <<>>
  ELSE SelectSeq(rowMajor, LAMBDA cell : ~isCenter(cell) /\ s.board[cell] = "null")

movesFor(s, from) ==
  IF s.phase = "placement" THEN <<>>
  ELSE IF ~inBounds(from) \/ s.board[from] # s.current THEN <<>>
  ELSE SelectSeq(neighbors(from), LAMBDA to : s.board[to] = "null")

hasAnyLegalMove(s, player) ==
  IF s.phase = "placement" THEN Len(placementsFor(s, player)) > 0
  ELSE \E cell \in Cells : s.board[cell] = player /\ Len(movesFor(s, cell)) > 0

\* ---------------------------------------------------------------------------
\* Capture resolver
\* ---------------------------------------------------------------------------
\* collectLine with the center test left out: the center is collected too
RECURSIVE collectLine_center(_, _, _, _, _)
collectLine_center(board, pos, dir, opponent, line) ==
  IF inBounds(pos) /\ board[pos] = opponent
  THEN collectLine_center(board, step(pos, dir), dir, opponent, Append(line, pos))
  ELSE [line |-> line, pos |-> pos]

\* the while loop of resolveCaptures: collects the contiguous opponent stones
\* from pos on, leaving out the center, and returns the cell the walk stops at
RECURSIVE collectLine(_, _, _, _, _)
collectLine(board, pos, dir, opponent, line) ==
  IF inBounds(pos) /\ board[pos] = opponent
  THEN collectLine(board, step(pos, dir), dir, opponent,
                   IF ~isCenter(pos) THEN Append(line, pos) ELSE line)
  ELSE [line |-> line, pos |-> pos]

\* the body of the direction loop of resolveCaptures
capturedInDirection(board, movedTo, dir, player, opponent) ==
  LET w == collectLine(board, step(movedTo, dir), dir, opponent, <<>>)
  IN IF Len(w.line) > 0 /\ inBounds(w.pos) /\ board[w.pos] = player
     THEN w.line ELSE <<>>

\* resolveCaptures giving up after the first direction that captures
resolveCaptures_first(s, movedTo) ==
  LET player == s.board[movedTo]
      opponent == IF player = "Light" THEN "Dark" ELSE "Light"
      lines == [i \in 1..4 |->
                  capturedInDirection(s.board, movedTo, directions[i], player, opponent)]
      capturing == {i \in 1..4 : Len(lines[i]) > 0}
  IN IF player = "null" \/ capturing = {} THEN [captured |-> <<>>]
     ELSE [captured |-> lines[CHOOSE i \in capturing : \A j \in capturing : i <= j]]

resolveCaptures(s, movedTo) ==
  LET player == s.board[movedTo]
      opponent == IF player = "Light" THEN "Dark" ELSE "Light"
  IN IF player = "null" THEN [captured |-> <<>>]
     ELSE [captured |->
             Flatten([i \in 1..4 |->
               capturedInDirection(s.board, movedTo, directions[i], player, opponent)])]

\* previewLine stopping at the center instead of walking over it
RECURSIVE previewLine_stop(_, _, _, _, _)
previewLine_stop(board, pos, dir, opponent, line) ==
  IF inBounds(pos) /\ board[pos] = opponent /\ ~isCenter(pos)
  THEN previewLine_stop(board, step(pos, dir), dir, opponent, Append(line, pos))
  ELSE [line |-> line, pos |-> pos]

\* the while loop of previewCaptures
RECURSIVE previewLine(_, _, _, _, _)
previewLine(board, pos, dir, opponent, line) ==
  IF inBounds(pos) /\ board[pos] = opponent
  THEN previewLine(board, step(pos, dir), dir, opponent,
                   IF ~isCenter(pos) THEN Append(line, pos) ELSE line)
  ELSE [line |-> line, pos |-> pos]

previewCaptures(s, from, to) ==
  IF to \notin Range(movesFor(s, from)) THEN <<>>
  ELSE LET player == s.board[from]
           opponent == IF player = "Light" THEN "Dark" ELSE "Light"
           inDirection(dir) ==
             LET w == previewLine(s.board, step(to, dir), dir, opponent, <<>>)
             IN IF Len(w.line) > 0 /\ inBounds(w.pos) /\ s.board[w.pos] = player
                THEN w.line ELSE <<>>
       IN IF player = "null" THEN <<>>
          ELSE Flatten([i \in 1..4 |-> inDirection(directions[i])])

\* ---------------------------------------------------------------------------
\* Win / draw detector
\* ---------------------------------------------------------------------------
tieBreak(lightCount, darkCount) ==
  IF lightCount > darkCount THEN "Light"
  ELSE IF darkCount > lightCount THEN "Dark" ELSE "null"

noWin == [found |-> FALSE, winner |-> "undefined", reason |-> noReason]

\* checkWin with the threshold itself not yet a loss
checkWin_below(s) ==
  LET lightCount == countStones(s, "Light")
      darkCount == countStones(s, "Dark")
  IN IF lightCount < WIN_THRESHOLD
     THEN [found |-> TRUE, winner |-> "Dark",
           reason |-> [type |-> "stoneCount", loserStoneCount |-> lightCount,
                       threshold |-> WIN_THRESHOLD, loser |-> "Light"]]
     ELSE IF darkCount < WIN_THRESHOLD
     THEN [found |-> TRUE, winner |-> "Light",
           reason |-> [type |-> "stoneCount", loserStoneCount |-> darkCount,
                       threshold |-> WIN_THRESHOLD, loser |-> "Dark"]]
     ELSE IF s.stalemateOffers["Light"] /\ s.stalemateOffers["Dark"]
     THEN [found |-> TRUE, winner |-> tieBreak(lightCount, darkCount),
           reason |-> [type |-> "stalemate", drawType |-> "mutual"]]
     ELSE IF s.moveRepetition >= REPETITION_THRESHOLD
     THEN [found |-> TRUE, winner |-> tieBreak(lightCount, darkCount),
           reason |-> [type |-> "stalemate", drawType |-> "repetition"]]
     ELSE noWin

checkWin(s) ==
  LET lightCount == countStones(s, "Light")
      darkCount == countStones(s, "Dark")
  IN IF lightCount <= WIN_THRESHOLD
     THEN [found |-> TRUE, winner |-> "Dark",
           reason |-> [type |-> "stoneCount", loserStoneCount |-> lightCount,
                       threshold |-> WIN_THRESHOLD, loser |-> "Light"]]
     ELSE IF darkCount <= WIN_THRESHOLD
     THEN [found |-> TRUE, winner |-> "Light",
           reason |-> [type |-> "stoneCount", loserStoneCount |-> darkCount,
                       threshold |-> WIN_THRESHOLD, loser |-> "Dark"]]
     ELSE IF s.stalemateOffers["Light"] /\ s.stalemateOffers["Dark"]
     THEN [found |-> TRUE, winner |-> tieBreak(lightCount, darkCount),
           reason |-> [type |-> "stalemate", drawType |-> "mutual"]]
     ELSE IF s.moveRepetition >= REPETITION_THRESHOLD
     THEN [found |-> TRUE, winner |-> tieBreak(lightCount, darkCount),
           reason |-> [type |-> "stalemate", drawType |-> "repetition"]]
     ELSE noWin

createBoardHash(s) == [board |-> s.board, current |-> s.current, phase |-> s.phase]

checkInsufficientMaterial(s) ==
  LET totalStones == countStones(s, "Light") + countStones(s, "Dark")
  IN totalStones <= INSUFFICIENT_TOTAL /\ Len(s.capturedLastMove) = 0

detectStalemate(s) ==
  IF s.phase # "movement" THEN s
  ELSE LET lightHasMoves == hasAnyLegalMove(s, "Light")
           darkHasMoves == hasAnyLegalMove(s, "Dark")
           decided == [s EXCEPT
                         !.winner = tieBreak(countStones(s, "Light"), countStones(s, "Dark")),
                         !.winReason = [type |-> "stalemate", drawType |-> "insufficient"]]
       IN IF ~lightHasMoves /\ ~darkHasMoves THEN decided
          ELSE IF checkInsufficientMaterial(s) THEN decided
          ELSE s

\* ---------------------------------------------------------------------------
\* Transition engine
\* ---------------------------------------------------------------------------
\* [cell1, cell2].filter(Boolean)
placementCells(cell1, cell2) ==
  SelectSeq(<<cell1, cell2>>, LAMBDA cell : cell # undefinedCell)

\* the checks applyPlacement makes on one cell, in the order of the code
placementCellError(s, cell) ==
  IF ~inBounds(cell) THEN "Cell out of bounds"
  ELSE IF isCenter(cell) THEN "Cannot place in center during placement phase"
  ELSE IF s.board[cell] # "null" THEN "Cell already occupied"
  ELSE "ok"

\* the message of the error applyPlacement throws, "ok" when it throws none
applyPlacementError(s, cell1, cell2) ==
  LET placements == placementCells(cell1, cell2)
      failing == SelectSeq(placements, LAMBDA cell : placementCellError(s, cell) # "ok")
  IN IF s.phase # "placement" THEN "Not in placement phase"
     ELSE IF s.placementCount >= 2 THEN "Already placed 2 stones this turn"
     ELSE IF Len(failing) > 0 THEN placementCellError(s, Head(failing))
     ELSE "ok"

\* applyPlacement ending the placement phase when Light has no stone left
applyPlacement_light(s, cell1, cell2) ==
  LET placements == placementCells(cell1, cell2)
      placed == [s EXCEPT
                   !.board = [cell \in Cells |->
                                IF cell \in Range(placements) THEN s.current ELSE s.board[cell]],
                   !.placementCount = s.placementCount + Len(placements),
                   !.stonesToPlace[s.current] = s.stonesToPlace[s.current] - Len(placements)]
  IN IF placed.placementCount >= 2 \/ placed.stonesToPlace[s.current] <= 0
     THEN [placed EXCEPT
             !.current = other(s.current),
             !.placementCount = 0,
             !.phase = IF placed.stonesToPlace["Light"] <= 0
                       THEN "movement" ELSE placed.phase]
     ELSE placed

applyPlacement(s, cell1, cell2) ==
  LET placements == placementCells(cell1, cell2)
      placed == [s EXCEPT
                   !.board = [cell \in Cells |->
                                IF cell \in Range(placements) THEN s.current ELSE s.board[cell]],
                   !.placementCount = s.placementCount + Len(placements),
                   !.stonesToPlace[s.current] = s.stonesToPlace[s.current] - Len(placements)]
  IN IF placed.placementCount >= 2 \/ placed.stonesToPlace[s.current] <= 0
     THEN [placed EXCEPT
             !.current = other(s.current),
             !.placementCount = 0,
             !.phase = IF placed.stonesToPlace["Light"] <= 0 /\ placed.stonesToPlace["Dark"] <= 0
                       THEN "movement" ELSE placed.phase]
     ELSE placed

\* state.moveHistory.filter(m => m.pieceId === pieceId).slice(-4)
lastFour(seq) == IF Len(seq) <= 4 THEN seq ELSE SubSeq(seq, Len(seq) - 3, Len(seq))

\* the anti-shuttle test of applyMove; index i of the code is i - 1 here
isShuttling(s, from, to) ==
  LET recentMoves == lastFour(SelectSeq(s.moveHistory, LAMBDA m : m.pieceId = from))
  IN /\ Len(recentMoves) >= 4
     /\ \A i \in 1..Len(recentMoves) :
          IF (i - 1) % 2 = 0 THEN recentMoves[i].from = to ELSE recentMoves[i].to = to

\* firstMoveViolation never raised
firstMoveViolation_never(s, to) == FALSE

\* applyMove, "Apply first move center constraint if enabled"
firstMoveViolation(s, to) ==
  s.variant.firstMoveMustEnterCenter /\ Len(s.moveHistory) = 0 /\ ~isCenter(to)

\* the message of the error applyMove throws, "ok" when it throws none
applyMoveError(s, from, to) ==
  IF s.phase = "placement" THEN "Still in placement phase"
  ELSE IF ~inBounds(from) \/ ~inBounds(to) THEN "Cells out of bounds"
  ELSE IF s.board[from] # s.current THEN "No piece to move or not your piece"
  ELSE IF s.board[to] # "null" THEN "Destination occupied"
  ELSE LET dx == IF to[1] >= from[1] THEN to[1] - from[1] ELSE from[1] - to[1]
           dy == IF to[2] >= from[2] THEN to[2] - from[2] ELSE from[2] - to[2]
       IN IF dx + dy # 1 THEN "Must move exactly one orthogonal step"
          ELSE IF firstMoveViolation(s, to)
          THEN "First move must enter center"
          ELSE IF s.variant.antiShuttle /\ isShuttling(s, from, to)
          THEN "Anti-shuttle rule prevents this move"
          ELSE "ok"

\* movePiece keeping the record of the last move only
movePiece_only(s, from, to) ==
  [s EXCEPT !.board = [s.board EXCEPT ![from] = "null", ![to] = s.current],
            !.moveHistory = <<[pieceId |-> from, from |-> from, to |-> to]>>]

\* applyMove, "Move the piece" and "Record the move"; pieceId is the string
\* `${from.r},${from.c}`, which names the cell from, and the timestamp is
\* read by no rule
movePiece(s, from, to) ==
  [s EXCEPT !.board = [s.board EXCEPT ![from] = "null", ![to] = s.current],
            !.moveHistory = Append(s.moveHistory,
                                   [pieceId |-> from, from |-> from, to |-> to])]

\* removeCaptured taking the moved stone as well when it has entered between
\* two stones of the opponent
removeCaptured_between(s, to) ==
  LET captured == resolveCaptures(s, to).captured
      opponent == other(s.board[to])
      between == \E i \in {1, 3} :
                   /\ inBounds(step(to, directions[i]))
                   /\ inBounds(step(to, directions[i + 1]))
                   /\ s.board[step(to, directions[i])] = opponent
                   /\ s.board[step(to, directions[i + 1])] = opponent
  IN [s EXCEPT !.capturedLastMove = captured,
               !.board = [cell \in Cells |->
                            IF cell \in Range(captured) \/ (cell = to /\ between)
                            THEN "null" ELSE s.board[cell]]]

\* removeCaptured adding the captured cells to those of the moves before
removeCaptured_keep(s, to) ==
  LET captured == resolveCaptures(s, to).captured
  IN [s EXCEPT !.capturedLastMove = s.capturedLastMove \o captured,
               !.board = [cell \in Cells |->
                            IF cell \in Range(captured) THEN "null" ELSE s.board[cell]]]

\* applyMove, "Check for captures" and "Remove captured pieces"
removeCaptured(s, to) ==
  LET captured == resolveCaptures(s, to).captured
  IN [s EXCEPT !.capturedLastMove = captured,
               !.board = [cell \in Cells |->
                            IF cell \in Range(captured) THEN "null" ELSE s.board[cell]]]

\* applyMove, "Track board repetition for stalemate detection"
trackRepetition(s, prev) ==
  LET currentBoardHash == createBoardHash(s)
  IN [s EXCEPT !.moveRepetition = IF currentBoardHash = prev.lastBoardHash
                                  THEN prev.moveRepetition + 1 ELSE 0,
               !.lastBoardHash = currentBoardHash]

\* chainOrEndTurn passing the turn after a capture as well
chainOrEndTurn_pass(s, prev, to) ==
  IF Len(s.capturedLastMove) > 0
  THEN [s EXCEPT !.phase = "chain", !.chainOrigin = to, !.current = other(prev.current)]
  ELSE [s EXCEPT !.current = other(prev.current)]

\* applyMove, "If captures were made, enter chain mode with same player"
chainOrEndTurn(s, prev, to) ==
  IF Len(s.capturedLastMove) > 0
  THEN [s EXCEPT !.phase = "chain", !.chainOrigin = to]
  ELSE [s EXCEPT !.current = other(prev.current)]

\* applyMove, "Check win condition"
recordWin(s) ==
  LET winResult == checkWin(s)
  IN IF winResult.found
     THEN [s EXCEPT !.winner = winResult.winner, !.winReason = winResult.reason]
     ELSE s

applyMove(s, from, to) ==
  LET newState ==
        recordWin(chainOrEndTurn(trackRepetition(removeCaptured(movePiece(s, from, to), to), s),
                                 s, to))
      stalemateCheck == detectStalemate(newState)
  IN IF stalemateCheck.winner # "undefined" THEN stalemateCheck ELSE newState

applyChainStepError(s, to) ==
  IF s.phase # "chain" \/ s.chainOrigin = undefinedCell THEN "Not in chain capture mode"
  ELSE applyMoveError([s EXCEPT !.phase = "movement"], s.chainOrigin, to)

applyChainStep(s, to) == applyMove([s EXCEPT !.phase = "movement"], s.chainOrigin, to)

endChainError(s) == IF s.phase # "chain" THEN "Not in chain mode" ELSE "ok"

\* endChain leaving the turn with the player who captured
endChain_keep(s) == [s EXCEPT !.phase = "movement", !.chainOrigin = undefinedCell]

endChain(s) ==
  [s EXCEPT !.phase = "movement", !.current = other(s.current), !.chainOrigin = undefinedCell]

\* invokeBlockadeIfAnyError taking any cell of the board
invokeBlockadeIfAnyError_any(s, removeCell) ==
  IF ~s.variant.blockadeOneRemoval THEN "ok"
  ELSE IF hasAnyLegalMove(s, s.current) THEN "ok"
  ELSE IF removeCell = undefinedCell THEN "ok"
  ELSE IF ~inBounds(removeCell) THEN "Invalid stone to remove"
  ELSE "ok"

invokeBlockadeIfAnyError(s, removeCell) ==
  IF ~s.variant.blockadeOneRemoval THEN "ok"
  ELSE IF hasAnyLegalMove(s, s.current) THEN "ok"
  ELSE IF removeCell = undefinedCell THEN "ok"
  ELSE IF ~inBounds(removeCell) \/ s.board[removeCell] # s.current
  THEN "Invalid stone to remove"
  ELSE "ok"

\* invokeBlockadeIfAny asking only for the flag before it removes
invokeBlockadeIfAny_always(s, removeCell) ==
  IF ~s.variant.blockadeOneRemoval THEN s
  ELSE IF removeCell = undefinedCell THEN [s EXCEPT !.winner = "undefined"]
  ELSE [s EXCEPT !.board[removeCell] = "null"]

invokeBlockadeIfAny(s, removeCell) ==
  IF ~s.variant.blockadeOneRemoval THEN s
  ELSE IF hasAnyLegalMove(s, s.current) THEN s
  ELSE IF removeCell = undefinedCell THEN [s EXCEPT !.winner = "undefined"]
  ELSE [s EXCEPT !.board[removeCell] = "null"]

offerStalemate(s) == recordWin([s EXCEPT !.stalemateOffers[s.current] = TRUE])

rejectStalemate(s, player) == [s EXCEPT !.stalemateOffers[player] = FALSE]

resignGame(s, resigningPlayer) ==
  [s EXCEPT !.winner = IF resigningPlayer = "Light" THEN "Dark" ELSE "Light",
            !.winReason = [type |-> "resignation", resignedPlayer |-> resigningPlayer]]

\* ---------------------------------------------------------------------------
\* AI (src/lib/ai.ts)
\* ---------------------------------------------------------------------------
placementAction(cell) ==
  [type |-> "placement", cells |-> <<cell>>, from |-> undefinedCell, to |-> undefinedCell]

movementAction(from, to) ==
  [type |-> "movement", cells |-> <<from, to>>, from |-> from, to |-> to]

\* both branches on placementCount push the same single placements; the
\* movement branch serves movement and chain phase alike
generateAllMoves(s) ==
  IF s.phase = "placement"
  THEN [i \in 1..Len(placementsFor(s, s.current)) |->
          placementAction(placementsFor(s, s.current)[i])]
  ELSE Flatten([i \in 1..Len(rowMajor) |->
                  IF s.board[rowMajor[i]] = s.current
                  THEN [j \in 1..Len(movesFor(s, rowMajor[i])) |->
                          movementAction(rowMajor[i], movesFor(s, rowMajor[i])[j])]
                  ELSE <<>>])

\* Scores are kept as integers: every score of ai.ts is a multiple of 1/4 (the
\* weights and the raw positioning and safety scores are multiples of 1/2), so
\* a weight w is held as 2 * w, a raw score r as 2 * r and a score as 4 * score
DIFFICULTY_CONFIGS ==
  [beginner |-> [depth |-> 1,
                 weights |-> [stoneCount |-> 20, centerControl |-> 2, mobility |-> 1,
                              captures |-> 40, positioning |-> 1, safety |-> 1]],
   easy |-> [depth |-> 2,
             weights |-> [stoneCount |-> 20, centerControl |-> 4, mobility |-> 2,
                          captures |-> 30, positioning |-> 2, safety |-> 2]],
   medium |-> [depth |-> 3,
               weights |-> [stoneCount |-> 20, centerControl |-> 10, mobility |-> 6,
                            captures |-> 40, positioning |-> 8, safety |-> 6]],
   hard |-> [depth |-> 4,
             weights |-> [stoneCount |-> 20, centerControl |-> 16, mobility |-> 10,
                          captures |-> 50, positioning |-> 14, safety |-> 12]]]

\* 4 * 10000
WIN_SCORE == 40000

\* stands for Infinity: above every score
Infinity == 1000000

abs(n) == IF n >= 0 THEN n ELSE -n
max(a, b) == IF a >= b THEN a ELSE b
min(a, b) == IF a <= b THEN a ELSE b

RECURSIVE sumFrom(_, _)
sumFrom(seq, i) == IF i > Len(seq) THEN 0 ELSE seq[i] + sumFrom(seq, i + 1)

sum(seq) == sumFrom(seq, 1)

\* the cells of the double loop over r and c that hold a stone of player
stonesOf(s, player) == SelectSeq(rowMajor, LAMBDA cell : s.board[cell] = player)

calculateMobility(s, player) ==
  IF s.phase = "placement" THEN Len(placementsFor(s, player))
  ELSE LET stones == stonesOf(s, player)
       IN sum([i \in 1..Len(stones) |-> Len(movesFor(s, stones[i]))])

\* 2 * (the sum the loop of evaluatePositioning builds), times the weight
evaluatePositioning(s, player, weight) ==
  LET edge(n) == n = 0 \/ n = BOARD_SIZE - 1
      cellScore(cell) ==
        max(0, 6 - (abs(cell[1] - 3) + abs(cell[2] - 3)))
          + (IF edge(cell[1]) /\ edge(cell[2]) THEN 6
             ELSE IF edge(cell[1]) \/ edge(cell[2]) THEN 2 ELSE 0)
      stones == stonesOf(s, player)
  IN sum([i \in 1..Len(stones) |-> cellScore(stones[i])]) * weight

\* 2 * (the sum the loop of evaluateSafety builds), times the weight
evaluateSafety(s, player, weight) ==
  LET cellScore(cell) ==
        IF isCenter(cell) THEN 10
        ELSE Len(SelectSeq(neighbors(cell), LAMBDA n : s.board[n] = player))
      stones == stonesOf(s, player)
  IN sum([i \in 1..Len(stones) |-> cellScore(stones[i])]) * weight

evaluatePosition(s, player, weights) ==
  LET opponent == other(player)
      winResult == checkWin(s)
  IN IF winResult.found /\ winResult.winner = player THEN WIN_SCORE
     ELSE IF winResult.found /\ winResult.winner = opponent THEN -WIN_SCORE
     ELSE 2 * (countStones(s, player) - countStones(s, opponent)) * weights.stoneCount
          + (IF s.board[Center] = player THEN 2 * weights.centerControl
             ELSE IF s.board[Center] = opponent THEN -(2 * weights.centerControl) ELSE 0)
          + 2 * (calculateMobility(s, player) - calculateMobility(s, opponent))
              * weights.mobility
          + evaluatePositioning(s, player, weights.positioning)
          - evaluatePositioning(s, opponent, weights.positioning)
          + evaluateSafety(s, player, weights.safety)
          - evaluateSafety(s, opponent, weights.safety)

\* the placement branch simulates the placement of one stone; the movement
\* branch is applyMove
applyMoveToState(s, move) ==
  IF move.type = "placement"
  THEN LET cell == move.cells[1]
           placed == [s EXCEPT !.board[cell] = s.current,
                               !.stonesToPlace[s.current] = @ - 1]
       IN IF s.placementCount = 0
          THEN [placed EXCEPT !.placementCount = 1]
          ELSE LET passed == [placed EXCEPT !.placementCount = 0,
                                            !.current = other(s.current)]
               IN IF passed.stonesToPlace["Light"] <= 0 /\ passed.stonesToPlace["Dark"] <= 0
                  THEN [passed EXCEPT !.phase = "movement"]
                  ELSE passed
  ELSE applyMove(s, move.from, move.to)

\* applyMoveToState throws what applyMove throws
applyMoveToStateError(s, move) ==
  IF move.type = "placement" THEN "ok" ELSE applyMoveError(s, move.from, move.to)

\* the cut-off made after every child
cutOff_always(alpha, beta) == TRUE

\* if (beta <= alpha) break
cutOff(alpha, beta) == beta <= alpha

\* minimax returns value; thrown tells that applyMoveToState threw on the way,
\* and nodes counts the calls of minimax made. pruning = FALSE is the same
\* recursion without the cut-off
RECURSIVE minimax(_, _, _, _, _, _, _, _)
RECURSIVE searchMoves(_, _, _, _, _, _, _, _, _, _, _, _)
minimax(s, depth, maximizingPlayer, player, weights, alpha, beta, pruning) ==
  IF depth = 0 \/ checkWin(s).found
  THEN [thrown |-> FALSE, value |-> evaluatePosition(s, player, weights), nodes |-> 1]
  ELSE LET moves == generateAllMoves(s)
       IN IF Len(moves) = 0
          THEN [thrown |-> FALSE, value |-> evaluatePosition(s, player, weights),
                nodes |-> 1]
          ELSE searchMoves(s, moves, 1, depth, maximizingPlayer, player, weights,
                           alpha, beta,
                           IF maximizingPlayer THEN -Infinity ELSE Infinity, 1, pruning)

\* the for loop over moves, from move i on, with maxEval or minEval in best
searchMoves(s, moves, i, depth, maximizingPlayer, player, weights, alpha, beta, best, nodes, pruning) ==
  IF i > Len(moves) THEN [thrown |-> FALSE, value |-> best, nodes |-> nodes]
  ELSE IF applyMoveToStateError(s, moves[i]) # "ok"
  THEN [thrown |-> TRUE, value |-> 0, nodes |-> nodes]
  ELSE LET child == minimax(applyMoveToState(s, moves[i]), depth - 1, ~maximizingPlayer,
                            player, weights, alpha, beta, pruning)
           newBest == IF maximizingPlayer THEN max(best, child.value)
                      ELSE min(best, child.value)
           newAlpha == IF maximizingPlayer THEN max(alpha, child.value) ELSE alpha
           newBeta == IF maximizingPlayer THEN beta ELSE min(beta, child.value)
       IN IF child.thrown
          THEN [thrown |-> TRUE, value |-> 0, nodes |-> nodes + child.nodes]
          ELSE IF pruning /\ cutOff(newAlpha, newBeta)
          THEN [thrown |-> FALSE, value |-> newBest, nodes |-> nodes + child.nodes]
          ELSE searchMoves(s, moves, i + 1, depth, maximizingPlayer, player, weights,
                           newAlpha, newBeta, newBest, nodes + child.nodes, pruning)

\* minimax(newState, config.depth - 1, false, state.current, config.weights)
searchScore(s, move, difficulty) ==
  minimax(applyMoveToState(s, move), DIFFICULTY_CONFIGS[difficulty].depth - 1, FALSE,
          s.current, DIFFICULTY_CONFIGS[difficulty].weights, -Infinity, Infinity, TRUE).value

\* resolveCaptures(newState, move.to).captured.length: the captures found on
\* the board after the move
immediateCaptures(s, move) ==
  IF move.type = "movement"
  THEN Len(resolveCaptures(applyMoveToState(s, move), move.to).captured)
  ELSE 0

\* -Infinity + bonus is -Infinity
addBonus(score, bonus) == IF score = -Infinity THEN score ELSE score + bonus

\* the loop of getBestAIMove past the random choices, from move i on
RECURSIVE bestMoveFrom(_, _, _, _, _, _)
bestMoveFrom(s, moves, i, difficulty, bestMove, bestScore) ==
  IF i > Len(moves) THEN bestMove
  ELSE LET raised == addBonus(bestScore,
                              immediateCaptures(s, moves[i])
                                * DIFFICULTY_CONFIGS[difficulty].weights.captures)
           score == searchScore(s, moves[i], difficulty)
       IN IF score > raised
          THEN bestMoveFrom(s, moves, i + 1, difficulty, moves[i], score)
          ELSE bestMoveFrom(s, moves, i + 1, difficulty, bestMove, raised)

\* getBestAIMove when it does not pick at random; called with moves to choose
\* from
getBestAIMove(s, difficulty) ==
  LET moves == generateAllMoves(s)
  IN bestMoveFrom(s, moves, 1, difficulty, moves[1], -Infinity)

\* what getTopMoves adds to the minimax score of a move
getTopMovesBonus(s, move) ==
  immediateCaptures(s, move) * DIFFICULTY_CONFIGS["hard"].weights.captures

\* the score getTopMoves gives a move
getTopMovesScore(s, move) == searchScore(s, move, "hard") + getTopMovesBonus(s, move)

\* the description getTopMoves gives a move
getTopMovesDescription(s, move) ==
  IF move.type = "movement"
  THEN LET captures == immediateCaptures(s, move)
       IN IF captures > 0
          THEN "Captures " \o ToString(captures) \o (IF captures > 1 THEN " stones" ELSE " stone")
          ELSE IF isCenter(move.to) THEN "Secure center position"
          ELSE IF calculateMobility(applyMoveToState(s, move), s.current)
                    > calculateMobility(s, s.current)
          THEN "Improves mobility"
          ELSE "Strengthens position"
  ELSE IF abs(move.cells[1][1] - 3) + abs(move.cells[1][2] - 3) <= 2
  THEN "Near center position"
  ELSE "Strategic placement"

\* shouldAIAcceptStalemate; the default branch of the switch is reached by no
\* AIDifficulty
shouldAIAcceptStalemate(s, difficulty) ==
  LET aiPlayer == s.current
      humanPlayer == other(aiPlayer)
      aiStones == countStones(s, aiPlayer)
      humanStones == countStones(s, humanPlayer)
      stoneDifference == aiStones - humanStones
      totalStones == aiStones + humanStones
      aiMobility == calculateMobility(s, aiPlayer)
      humanMobility == calculateMobility(s, humanPlayer)
  IN IF stoneDifference <= -3 THEN TRUE
     ELSE IF stoneDifference >= 2 /\ totalStones > 12 THEN FALSE
     ELSE IF aiMobility = 0 /\ humanMobility > 0 THEN TRUE
     ELSE CASE difficulty = "beginner" -> abs(stoneDifference) <= 2 \/ totalStones <= 10
            [] difficulty = "easy" ->
                 stoneDifference <= 0 \/ (totalStones <= 8 /\ abs(stoneDifference) <= 1)
            [] difficulty = "medium" ->
                 stoneDifference < 0 \/ (totalStones <= 6 /\ stoneDifference <= 1)
            [] difficulty = "hard" ->
                 stoneDifference <= -2 \/ (aiMobility = 0 /\ totalStones <= 8)
            [] OTHER -> FALSE

\* ---------------------------------------------------------------------------
\* Store (gameStore.ts): the stalemate path of makeAIMove
\* ---------------------------------------------------------------------------
\* settings.players, by the type of each player
PlayerConfigs == [Players -> {"human", "ai"}]

isAITurn(s, playerConfigs) == playerConfigs[s.current] = "ai"

\* the store's offerStalemate, as it leaves gameState; a winner of null (a
\* draw) is falsy
storeOfferStalemate(s, playerConfigs) ==
  IF s.winner \in Players \/ isAITurn(s, playerConfigs) THEN s ELSE offerStalemate(s)

\* makeAIMove from its entry to the return of "Accept by offering stalemate
\* too", as it leaves gameState when that path is taken
makeAIMoveAcceptStalemate(s, playerConfigs) == storeOfferStalemate(s, playerConfigs)

\* makeAIMove takes the path of makeAIMoveAcceptStalemate
acceptsStalemate(s, playerConfigs, difficulty) ==
  /\ isAITurn(s, playerConfigs)
  /\ s.winner \notin Players
  /\ s.phase # "placement"
  /\ s.stalemateOffers[other(s.current)]
  /\ shouldAIAcceptStalemate(s, difficulty)

\* shouldAIOfferStalemate
shouldAIOfferStalemate(s, difficulty) ==
  LET aiPlayer == s.current
      humanPlayer == other(aiPlayer)
      aiStones == countStones(s, aiPlayer)
      humanStones == countStones(s, humanPlayer)
      totalStones == aiStones + humanStones
  IN IF s.phase # "movement" THEN FALSE
     ELSE IF aiStones - humanStones >= 3 THEN FALSE
     ELSE IF totalStones <= 8 /\ calculateMobility(s, aiPlayer) <= 1
                              /\ calculateMobility(s, humanPlayer) <= 1
     THEN TRUE
     ELSE IF totalStones <= 8 /\ aiStones = humanStones - 1 /\ totalStones <= 6
     THEN difficulty \in {"beginner", "easy"}
     ELSE s.moveRepetition >= 4

\* ---------------------------------------------------------------------------
\* Store (gameStore.ts): the fields that decide what the actions do
\* ---------------------------------------------------------------------------
\* a winner that JavaScript takes for true: a player, not undefined and not
\* null (a draw)
truthy(winner) == winner \in Players

\* no game: nothing saved, nothing read
noGame == [phase |-> "none"]

\* getBestAIMove returning null
noMove == [type |-> "none"]

\* no makeAIMove is waiting
idle == [pc |-> "idle", gameState |-> noGame]

\* settings.aiDifficulty of defaultSettings
aiDifficulty == "beginner"

\* the store after create(); saved is what loadGameState would return
newStore(players, saved) ==
  [gameState |-> initialState7x7(defaultVariant),
   selectedCell |-> undefinedCell,
   blockadeRemovalMode |-> FALSE,
   aiThinking |-> FALSE,
   players |-> players,
   saved |-> saved,
   timers |-> 0,
   ai |-> idle]

\* set({ gameState: newState }); saveGameState(newState)
setGameState(st, newState) == [st EXCEPT !.gameState = newState, !.saved = newState]

\* setTimeout(() => get().checkForAITurn(), ...): one more call is due; calls
\* beyond MaxTimers are not followed
setTimer(st) ==
  [st EXCEPT !.timers = IF st.timers < MaxTimers THEN st.timers + 1 ELSE st.timers]

\* placeStone, for a cell of the board
placeStone(st, cell) ==
  LET gameState == st.gameState
      currentPlayer == gameState.current
      placed == [gameState EXCEPT
                   !.board[cell] = currentPlayer,
                   !.stonesToPlace[currentPlayer] = gameState.stonesToPlace[currentPlayer] - 1]
  IN IF gameState.placementCount = 0
     THEN setGameState(st, [placed EXCEPT !.placementCount = 1])
     ELSE IF gameState.placementCount = 1
     THEN setTimer(setGameState(st,
            [placed EXCEPT
               !.placementCount = 0,
               !.current = other(currentPlayer),
               !.phase = IF placed.stonesToPlace["Light"] <= 0
                            /\ placed.stonesToPlace["Dark"] <= 0
                         THEN "movement" ELSE placed.phase]))
     ELSE st

\* needsBlockadeResolution && !newState.winner
needsRemoval(newState) ==
  ~hasAnyLegalMove(newState, newState.current) /\ ~truthy(newState.winner)

\* moveStone: an error of applyMove is caught and shown as a toast
moveStone(st, from, to) ==
  IF applyMoveError(st.gameState, from, to) # "ok" THEN st
  ELSE LET newState == applyMove(st.gameState, from, to)
       IN setTimer([setGameState(st, newState) EXCEPT
                      !.selectedCell = undefinedCell,
                      !.blockadeRemovalMode = needsRemoval(newState)])

\* chainStep
chainStep(st, to) ==
  IF applyChainStepError(st.gameState, to) # "ok" THEN st
  ELSE LET newState == applyChainStep(st.gameState, to)
       IN setTimer([setGameState(st, newState) EXCEPT !.selectedCell = newState.chainOrigin])

\* endChainCapture
endChainCapture(st) ==
  IF endChainError(st.gameState) # "ok" THEN st
  ELSE LET newState == endChain(st.gameState)
       IN setTimer([setGameState(st, newState) EXCEPT
                      !.selectedCell = undefinedCell,
                      !.blockadeRemovalMode = needsRemoval(newState)])

\* endTurn
endTurn(st) ==
  LET gameState == st.gameState
  IN IF gameState.phase # "movement" \/ hasAnyLegalMove(gameState, gameState.current)
     THEN st
     ELSE LET newState == [gameState EXCEPT !.current = other(gameState.current),
                                            !.capturedLastMove = <<>>]
          IN setTimer([setGameState(st, newState) EXCEPT
                         !.selectedCell = undefinedCell,
                         !.blockadeRemovalMode = needsRemoval(newState)])

\* removeBlockadeStone
removeBlockadeStone(st, cell) ==
  IF invokeBlockadeIfAnyError(st.gameState, cell) # "ok" THEN st
  ELSE setTimer([setGameState(st, invokeBlockadeIfAny(st.gameState, cell)) EXCEPT
                   !.selectedCell = undefinedCell,
                   !.blockadeRemovalMode = FALSE])

\* selectCell
selectCell(st, cell) ==
  LET gameState == st.gameState
  IN IF st.aiThinking THEN st
     ELSE IF isAITurn(gameState, st.players) THEN st
     ELSE IF gameState.phase = "placement" THEN placeStone(st, cell)
     ELSE IF st.blockadeRemovalMode THEN removeBlockadeStone(st, cell)
     ELSE IF gameState.board[cell] = gameState.current
     THEN [st EXCEPT !.selectedCell = cell]
     ELSE IF gameState.board[cell] = "null" /\ st.selectedCell # undefinedCell
     THEN IF gameState.phase = "chain" THEN chainStep(st, cell)
          ELSE moveStone(st, st.selectedCell, cell)
     ELSE st

\* newGame, with settings.variant of defaultSettings; a makeAIMove that is
\* waiting stays as it is
newGame(st) ==
  setTimer([setGameState(st, initialState7x7(defaultVariant)) EXCEPT
              !.selectedCell = undefinedCell,
              !.blockadeRemovalMode = FALSE,
              !.aiThinking = FALSE])

\* loadSavedGame
loadSavedGame(st) ==
  IF st.saved.phase = "none" THEN st
  ELSE setTimer([st EXCEPT
                   !.gameState = st.saved,
                   !.selectedCell = undefinedCell,
                   !.blockadeRemovalMode = ~hasAnyLegalMove(st.saved, st.saved.current),
                   !.aiThinking = FALSE])

\* the store's offerStalemate
storeOffer(st) ==
  IF truthy(st.gameState.winner) \/ isAITurn(st.gameState, st.players) THEN st
  ELSE [setGameState(st, offerStalemate(st.gameState)) EXCEPT !.selectedCell = undefinedCell]

\* the store's rejectStalemate
storeReject(st) ==
  IF truthy(st.gameState.winner) \/ isAITurn(st.gameState, st.players) THEN st
  ELSE setGameState(st, rejectStalemate(st.gameState, st.gameState.current))

\* the store's resignGame
storeResign(st) ==
  IF truthy(st.gameState.winner) \/ isAITurn(st.gameState, st.players) THEN st
  ELSE [setGameState(st, resignGame(st.gameState, st.gameState.current)) EXCEPT
          !.selectedCell = undefinedCell]

\* checkForAITurn calls makeAIMove, and makeAIMove goes on to its first await
startsAI(st) ==
  /\ ~(st.aiThinking \/ st.blockadeRemovalMode \/ truthy(st.gameState.winner))
  /\ isAITurn(st.gameState, st.players)

\* checkForAITurn, when its timer fires, up to the first await of makeAIMove
checkForAITurn(st) ==
  LET due == [st EXCEPT !.timers = st.timers - 1]
  IN IF startsAI(st)
     THEN [due EXCEPT !.aiThinking = TRUE,
                      !.ai = [pc |-> "delay", gameState |-> st.gameState]]
     ELSE due

\* set({ aiThinking: false }) and the end of makeAIMove
aiDone(st) == [st EXCEPT !.aiThinking = FALSE, !.ai = idle]

\* makeAIMove from the end of its first delay to its next await or its end;
\* gameState is the state read before the delay, move the outcome of
\* getBestAIMove(gameState, aiDifficulty) (any generated move: beginner picks
\* at random), noMove when there is no move
makeAIMoveAct(st, move) ==
  LET gameState == st.ai.gameState
      humanPlayer == other(gameState.current)
      offered == gameState.stalemateOffers[humanPlayer]
      rejected == IF offered THEN storeReject(st) ELSE st
  IN IF gameState.phase = "placement"
     THEN IF gameState.placementCount = 0
          THEN IF move.type = "none" THEN aiDone(st)
               ELSE [placeStone(st, move.cells[1]) EXCEPT !.ai.pc = "second"]
          ELSE IF gameState.placementCount = 1
          THEN IF move.type = "none" THEN aiDone(st) ELSE aiDone(placeStone(st, move.cells[1]))
          ELSE aiDone(st)
     ELSE IF offered /\ shouldAIAcceptStalemate(gameState, aiDifficulty)
     THEN aiDone(storeOffer(st))
     ELSE IF ~gameState.stalemateOffers[gameState.current]
               /\ shouldAIOfferStalemate(gameState, aiDifficulty)
     THEN aiDone(storeOffer(rejected))
     ELSE IF move.type = "none" THEN aiDone(rejected)
     ELSE aiDone(moveStone(rejected, move.from, move.to))

\* makeAIMove after the delay behind its first stone; move is the outcome of
\* getBestAIMove(currentState, aiDifficulty)
makeAIMoveSecond(st, move) ==
  LET currentState == st.gameState
  IN IF /\ currentState.phase = "placement"
        /\ currentState.placementCount = 1
        /\ isAITurn(currentState, st.players)
        /\ move.type # "none"
     THEN aiDone(placeStone(st, move.cells[1]))
     ELSE aiDone(st)

\* ---------------------------------------------------------------------------
\* Starting positions
\* ---------------------------------------------------------------------------
boardOf(light, dark) ==
  [cell \in Cells |-> IF cell \in light THEN "Light"
                      ELSE IF cell \in dark THEN "Dark" ELSE "null"]

\* a position of the movement phase: placement is over, nothing moved yet
\* since the position was set up (the way the test suites set positions up)
position(light, dark, current, variant) ==
  [initialState7x7(variant) EXCEPT
     !.board = boardOf(light, dark),
     !.current = current,
     !.phase = "movement",
     !.stonesToPlace = [p \in Players |-> 0]]

\* Light holds a 2x4 block in the corner, walled in by Dark but for (2,3);
\* Dark to move can close the wall
blockadePosition ==
  position((0..1) \X (0..3),
           {<<0, 4>>, <<1, 4>>, <<0, 5>>, <<1, 5>>, <<2, 0>>, <<2, 1>>, <<2, 2>>, <<2, 4>>},
           "Dark", defaultVariant)

\* Light (3,1), Dark (3,2), (3,3), (3,4), Light (3,6) to move to (3,5): the
\* position of the test 'should not capture piece on center cell', with a
\* packed corner that brings Light to 8 and Dark to 10 stones
centerLinePosition ==
  position({<<0, 0>>, <<0, 1>>, <<0, 2>>, <<1, 0>>, <<1, 1>>, <<2, 0>>, <<3, 1>>, <<3, 6>>},
           {<<0, 3>>, <<0, 4>>, <<1, 2>>, <<1, 3>>, <<2, 1>>, <<2, 2>>, <<2, 3>>,
            <<3, 2>>, <<3, 3>>, <<3, 4>>},
           "Light", defaultVariant)

\* Light fills the upper half but for (0,1), Dark the center and the lower half
\* but for (6,5): each side can only move a stone into its own gap, and no
\* move captures
shuttlePosition ==
  position((((0..2) \X (0..6)) \cup ({3} \X (0..2))) \ {<<0, 1>>},
           (((4..6) \X (0..6)) \cup ({3} \X (3..6))) \ {<<6, 5>>},
           "Light", shuttleVariant)

\* Light's 2x4 block walled in by Dark, Light to move, with the removal
\* variant disabled
walledPosition ==
  position((0..1) \X (0..3),
           {<<0, 4>>, <<1, 4>>, <<0, 5>>, <<1, 5>>, <<2, 0>>, <<2, 1>>, <<2, 2>>, <<2, 3>>},
           "Light", noRemovalVariant)

\* two blocks of eight and a stone of each side next to the empty center,
\* Light to move, with the first move bound to enter the center
centerFirstPosition ==
  position(((0..1) \X (0..3)) \cup {<<3, 2>>}, ((5..6) \X (0..3)) \cup {<<3, 4>>},
           "Light", centerFirstVariant)

\* the boards of the tests of 'Multi-Axis Captures': a Light stone that has
\* just arrived on the center, and on each of the four arms from it a line of
\* Dark stones followed by a Light stone or by an empty cell
ArmShapes == [stones : 0..MaxArm, bound : {"Light", "null"}]

arm(i, j) == <<Center[1] + j * directions[i][1], Center[2] + j * directions[i][2]>>

crossPosition(arms) ==
  position(({Center} \cup {arm(i, arms[i].stones + 1) :
                                i \in {k \in 1..4 : arms[k].bound = "Light"}}) \cap Cells,
           (UNION {{arm(i, j) : j \in 1..arms[i].stones} : i \in 1..4}) \cap Cells,
           "Light", defaultVariant)

\* shuttlePosition under the default rules
searchPosition == [shuttlePosition EXCEPT !.variant = defaultVariant]

InitialStates ==
  {initialState7x7(defaultVariant), blockadePosition, centerLinePosition, walledPosition,
   centerFirstPosition}

Init == state \in InitialStates

\* ---------------------------------------------------------------------------
\* Calls of the engine
\* ---------------------------------------------------------------------------
\* the (cell1, cell2) pairs explored: the free cells are taken in row-major
\* order; near the end of placement also a second pair within one turn and
\* the same cell twice
PlacementInputs(s) ==
  LET free == placementsFor(s, s.current)
      first == IF Len(free) >= 1 THEN {free[1]} ELSE {}
      second == IF Len(free) >= 2 THEN {free[2]} ELSE {}
      tail == s.stonesToPlace[s.current] <= TailStones
  IN (first \X {undefinedCell})
       \cup (IF s.placementCount = 0 \/ tail THEN first \X second ELSE {})
       \cup (IF tail THEN {<<cell, cell>> : cell \in first} ELSE {})

\* the first free cells, as second cells of a placement
PlacementSamples(s) ==
  LET free == placementsFor(s, s.current)
  IN {free[i] : i \in 1..(IF Len(free) < 2 THEN Len(free) ELSE 2)}

\* no result is recorded in s and no stalemate offer is pending
undisturbed(s) ==
  /\ s.winner = "undefined"
  /\ s.winReason = noReason
  /\ \A player \in Players : ~s.stalemateOffers[player]

\* calls that change the board are explored from s
withinHorizon(s) ==
  /\ Len(s.moveHistory) <
       (IF countStones(s, "Light") + countStones(s, "Dark") > OpeningStones
        THEN OpeningMoves ELSE MaxMoves)
  /\ undisturbed(s) \/ Len(s.moveHistory) < AfterEndMoves

\* calls that leave the board alone are explored from s
adminExplored(s) ==
  IF s.phase = "placement"
  THEN countStones(s, "Light") + countStones(s, "Dark") < AdminMoves
  ELSE Len(s.moveHistory) < AdminMoves

Place ==
  /\ undisturbed(state)
       \/ countStones(state, "Light") + countStones(state, "Dark") < AfterEndMoves
  /\ \E input \in PlacementInputs(state) :
       /\ applyPlacementError(state, input[1], input[2]) = "ok"
       /\ state' = applyPlacement(state, input[1], input[2])

Move ==
  /\ withinHorizon(state)
  /\ \E from \in Cells : \E to \in Range(neighbors(from)) :
    /\ applyMoveError(state, from, to) = "ok"
    /\ state' = applyMove(state, from, to)

ChainStep ==
  /\ withinHorizon(state)
  /\ \E to \in Cells :
    /\ applyChainStepError(state, to) = "ok"
    /\ state' = applyChainStep(state, to)

EndChain ==
  /\ endChainError(state) = "ok"
  /\ state' = endChain(state)

\* the removeCell arguments explored: none, and the first stones of the player
\* to move (the argument is read only when that player is blocked)
BlockadeInputs(s) ==
  LET stones == SelectSeq(rowMajor, LAMBDA cell : s.board[cell] = s.current)
  IN {undefinedCell} \cup
       (IF withinHorizon(s)
        THEN {stones[i] : i \in 1..(IF Len(stones) < RemovalChoices THEN Len(stones)
                                    ELSE RemovalChoices)}
        ELSE {})

Blockade ==
  \E removeCell \in BlockadeInputs(state) :
    /\ invokeBlockadeIfAnyError(state, removeCell) = "ok"
    /\ state' = invokeBlockadeIfAny(state, removeCell)

OfferStalemate == adminExplored(state) /\ state' = offerStalemate(state)

RejectStalemate ==
  adminExplored(state) /\ \E player \in Players : state' = rejectStalemate(state, player)

Resign ==
  adminExplored(state) /\ \E player \in Players : state' = resignGame(state, player)

Next ==
  \/ Place
  \/ Move
  \/ ChainStep
  \/ EndChain
  \/ Blockade
  \/ OfferStalemate
  \/ RejectStalemate
  \/ Resign

Spec == Init /\ [][Next]_vars

\* applyMove alone, played on from shuttlePosition
ShuttleInit == state = shuttlePosition

ShuttleMove ==
  /\ Len(state.moveHistory) < ShuttleMoves
  /\ \E from \in Cells : \E to \in Range(neighbors(from)) :
       /\ applyMoveError(state, from, to) = "ok"
       /\ state' = applyMove(state, from, to)

ShuttleNext == ShuttleMove

ShuttleSpec == ShuttleInit /\ [][ShuttleNext]_vars

\* resolveCaptures applied to the boards of crossPosition, as applyMove applies
\* it after it has moved the stone
CaptureInit == state \in {crossPosition(arms) : arms \in [1..4 -> ArmShapes]}

CaptureResolve ==
  /\ state.board[Center] = "Light"
  /\ state.capturedLastMove = <<>>
  /\ state' = removeCaptured(state, Center)

CaptureNext == CaptureResolve

CaptureSpec == CaptureInit /\ [][CaptureNext]_vars

\* the moves the AI generates, played on from searchPosition
SearchInit == state = searchPosition

SearchMove ==
  /\ Len(state.moveHistory) < SearchMoves
  /\ \E move \in Range(generateAllMoves(state)) :
       /\ applyMoveToStateError(state, move) = "ok"
       /\ state' = applyMoveToState(state, move)

SearchNext == SearchMove

SearchSpec == SearchInit /\ [][SearchNext]_vars

TypeOK ==
  /\ state.phase \in {"placement", "movement", "chain"}
  /\ state.current \in Players
  /\ state.winner \in Players \cup {"null", "undefined"}
  /\ \A cell \in Cells : state.board[cell] \in Players \cup {"null"}

\* the store: human clicks, buttons and timers around one makeAIMove
\* settings.players: one human against the AI
PlayerSettings ==
  {[Light |-> "human", Dark |-> "ai"], [Light |-> "ai", Dark |-> "human"]}

\* what loadGameState can return when the store is created
SavedGames == {noGame, blockadePosition, walledPosition, centerLinePosition}

StoreInit == state \in {newStore(players, saved) : players \in PlayerSettings, saved \in SavedGames}

\* stones and moves are followed from st
storeHorizon(st) ==
  IF st.gameState.phase = "placement"
  THEN countStones(st.gameState, "Light") + countStones(st.gameState, "Dark") < StoreSteps
  ELSE Len(st.gameState.moveHistory) < StoreSteps

\* the first n entries of seq, as a set
firstOf(seq, n) == {seq[i] : i \in 1..(IF Len(seq) < n THEN Len(seq) ELSE n)}

\* the cells clicked in st: in placement the first free cells, the center and
\* the first occupied cell; otherwise the stones of the player to move that
\* can move, the first of its stones and the cells next to the selected stone
clickCells(st) ==
  LET gameState == st.gameState
      own == stonesOf(gameState, gameState.current)
      movable == SelectSeq(own, LAMBDA cell : Len(movesFor(gameState, cell)) > 0)
      occupied == SelectSeq(rowMajor, LAMBDA cell : gameState.board[cell] # "null")
  IN IF gameState.phase = "placement"
     THEN firstOf(placementsFor(gameState, gameState.current), AIChoices)
            \cup {Center} \cup firstOf(occupied, 1)
     ELSE Range(movable) \cup firstOf(own, 1)
            \cup (IF st.selectedCell = undefinedCell THEN {}
                  ELSE Range(neighbors(st.selectedCell)))

\* the outcomes of getBestAIMove(s, aiDifficulty) that are followed
aiMoves(s) ==
  IF Len(generateAllMoves(s)) = 0 THEN {noMove}
  ELSE firstOf(generateAllMoves(s), AIChoices)

Click ==
  /\ storeHorizon(state)
  /\ \E cell \in clickCells(state) : state' = selectCell(state, cell)

EndChainButton == storeHorizon(state) /\ state' = endChainCapture(state)

EndTurnButton == storeHorizon(state) /\ state' = endTurn(state)

NewGameButton == state' = newGame(state)

LoadSaved == state' = loadSavedGame(state)

OfferButton == state' = storeOffer(state)

RejectButton == state' = storeReject(state)

ResignButton == state' = storeResign(state)

\* a timer that would start a second makeAIMove beside one that is waiting
\* fires after that one has gone on
TimerFires ==
  /\ state.timers > 0
  /\ ~(startsAI(state) /\ state.ai.pc # "idle")
  /\ state' = checkForAITurn(state)

AIActs ==
  /\ state.ai.pc = "delay"
  /\ \E move \in aiMoves(state.ai.gameState) : state' = makeAIMoveAct(state, move)

AISecond ==
  /\ state.ai.pc = "second"
  /\ \E move \in aiMoves(state.gameState) : state' = makeAIMoveSecond(state, move)

StoreNext ==
  \/ Click
  \/ EndChainButton
  \/ EndTurnButton
  \/ NewGameButton
  \/ LoadSaved
  \/ OfferButton
  \/ RejectButton
  \/ ResignButton
  \/ TimerFires
  \/ AIActs
  \/ AISecond

StoreSpec == StoreInit /\ [][StoreNext]_vars

\* the placement phase played through by applyPlacement alone, two distinct
\* legal cells a turn, with the turns counted
PlacementInit == state = [gameState |-> initialState7x7(defaultVariant), turns |-> 0]

PlacementTurn ==
  /\ state.gameState.phase = "placement"
  /\ LET free == placementsFor(state.gameState, state.gameState.current)
         width == IF state.turns < PlacementVaried THEN PlacementChoices ELSE 2
         choices == 1..(IF Len(free) < width THEN Len(free) ELSE width)
     IN \E i \in choices : \E j \in choices :
          /\ i < j
          /\ applyPlacementError(state.gameState, free[i], free[j]) = "ok"
          /\ state' = [gameState |-> applyPlacement(state.gameState, free[i], free[j]),
                       turns |-> state.turns + 1]

PlacementNext == PlacementTurn

PlacementSpec == PlacementInit /\ [][PlacementNext]_vars

\* the blockade after a placement: every cell but the center is occupied,
\* Dark holds the four cells next to the center and Light is to move.  Light
\* holds the two upper rows, the third but for (2,3), and four of ExtraCells
ExtraCells == {<<3, 0>>, <<3, 1>>, <<3, 5>>, <<3, 6>>, <<6, 0>>, <<6, 6>>}

fullBoard(extra) ==
  LET light == (((0..2) \X (0..6)) \ {<<2, 3>>}) \cup extra
  IN position(light, (Cells \ {Center}) \ light, "Light", defaultVariant)

RemovalInit ==
  \E extra \in SUBSET ExtraCells : Cardinality(extra) = 4 /\ state = fullBoard(extra)

\* the opponent names the stone of the blocked player to take off
Remove ==
  /\ state.moveHistory = <<>>
  /\ \E removeCell \in Cells \cup {undefinedCell} :
       /\ invokeBlockadeIfAnyError(state, removeCell) = "ok"
       /\ state' = invokeBlockadeIfAny(state, removeCell)

\* the first move after the removal
MoveOn ==
  /\ state.moveHistory = <<>>
  /\ \E from \in Cells : \E to \in Range(neighbors(from)) :
       /\ applyMoveError(state, from, to) = "ok"
       /\ state' = applyMove(state, from, to)

RemovalNext == Remove \/ MoveOn

RemovalSpec == RemovalInit /\ [][RemovalNext]_vars

\* ---------------------------------------------------------------------------
\* Observations used by the properties
\* ---------------------------------------------------------------------------
\* the step is a successful applyMove or applyChainStep: only they append to
\* moveHistory
MoveStep == Len(state'.moveHistory) = Len(state.moveHistory) + 1

lastMove(s) == s.moveHistory[Len(s.moveHistory)]

\* player owns a stone with an empty orthogonal neighbour
ownsMobileStone(s, player) ==
  \E cell \in Cells :
    /\ s.board[cell] = player
    /\ \E n \in Range(neighbors(cell)) : s.board[n] = "null"

lowOnStones(s, player) == countStones(s, player) <= WIN_THRESHOLD

wonOnStoneCount(s, loser) ==
  /\ s.winner = other(loser)
  /\ s.winReason.type = "stoneCount"
  /\ s.winReason.loser = loser

\* cell lies beyond the center on the line walked from the cell `to`
beyondCenter(to, cell) ==
  \/ /\ to[1] = Center[1] /\ cell[1] = Center[1]
     /\ \/ to[2] > Center[2] /\ cell[2] < Center[2]
        \/ to[2] < Center[2] /\ cell[2] > Center[2]
  \/ /\ to[2] = Center[2] /\ cell[2] = Center[2]
     /\ \/ to[1] > Center[1] /\ cell[1] < Center[1]
        \/ to[1] < Center[1] /\ cell[1] > Center[1]

\* the board and the player to move are those of a starting position again
boardRecurs(s) ==
  \E p \in InitialStates :
    p.phase = "movement" /\ s.board = p.board /\ s.current = p.current

\* ---------------------------------------------------------------------------
\* Properties
\* ---------------------------------------------------------------------------
\* C1: in every reachable state, phase = 'chain' implies that chainOrigin is
\* defined and names a cell holding a stone of the current player.
C1_ChainOriginHoldsMover ==
  state.phase = "chain" =>
    /\ state.chainOrigin # undefinedCell
    /\ state.board[state.chainOrigin] = state.current

\* C2: once winner is set (a player, or null for a draw), no later call changes
\* the board, the winner or the winReason.
C2_WinnerIsTerminal ==
  [][state.winner # "undefined" =>
       /\ state'.board = state.board
       /\ state'.winner = state.winner
       /\ state'.winReason = state.winReason]_vars

C4_CaptureEntersChain ==
  [][(MoveStep /\ Len(state'.capturedLastMove) > 0) =>
       /\ state'.phase = "chain"
       /\ state'.chainOrigin = lastMove(state').to
       /\ state'.current = state.current]_vars

\* a capturing move has just been made and the game is in chain phase
C4_Witness ==
  /\ Len(state.moveHistory) > 0
  /\ Len(state.capturedLastMove) > 0
  /\ state.phase = "chain"
  /\ state.chainOrigin = lastMove(state).to
  /\ state.board[state.chainOrigin] = state.current

\* C5: a successful move that captures nothing, in movement or in chain phase,
\* returns phase = 'movement' with current switched to the other player.
C5_NoCaptureEndsTurn ==
  [][(MoveStep /\ Len(state'.capturedLastMove) = 0) =>
       /\ state'.phase = "movement"
       /\ state'.current = other(state.current)]_vars

\* C6: in movement and chain phase, for every (from, to) that applyMove
\* accepts, previewCaptures(state, from, to) is the same set of cells as
\* applyMove(state, from, to).capturedLastMove: every successful move made
\* from a state removes exactly the cells that previewCaptures lists for it
\* in that state.
C6_PreviewMatchesMove ==
  [][MoveStep =>
       Range(previewCaptures(state, lastMove(state').from, lastMove(state').to))
         = Range(state'.capturedLastMove)]_vars

\* a capturing move has been made, and a further move is on offer that
\* applyMove accepts and for which previewCaptures lists cells
C6_Witness ==
  /\ Len(state.moveHistory) > 0
  /\ Len(state.capturedLastMove) > 0
  /\ \E from \in Cells : \E to \in Range(neighbors(from)) :
       /\ applyMoveError(state, from, to) = "ok"
       /\ Len(previewCaptures(state, from, to)) > 0

\* C7: the center never appears in capturedLastMove, and a stone on the center
\* is not removed by a move (applyMove, applyChainStep) unless it is the stone
\* that moves.
C7_CenterImmune ==
  /\ [](Center \notin Range(state.capturedLastMove))
  /\ [][(/\ MoveStep
         /\ state.board[Center] # "null"
         /\ lastMove(state').from # Center)
        => state'.board[Center] = state.board[Center]]_vars

\* the last move captured a neighbour of the center along a line through the
\* center, and the opponent's stone on the center is still there
C7_Witness ==
  /\ Len(state.moveHistory) > 0
  /\ state.phase = "chain"
  /\ state.board[Center] = other(state.current)
  /\ \E cell \in Range(state.capturedLastMove) :
       /\ cell \in Range(neighbors(Center))
       /\ \/ cell[1] = lastMove(state).to[1] /\ cell[1] = Center[1]
          \/ cell[2] = lastMove(state).to[2] /\ cell[2] = Center[2]

\* C8: an opponent stone on the center breaks the capture line: a move
\* captures no stone that lies beyond the center on the line walked from the
\* destination.
C8_CenterBreaksLine ==
  [][MoveStep =>
       \A cell \in Range(state'.capturedLastMove) :
         ~beyondCenter(lastMove(state').to, cell)]_vars

RECURSIVE stoneMoves(_, _, _, _)
stoneMoves(history, i, cell, n) ==
  LET arrivals == {j \in 1..i : history[j].to = cell}
  IN IF n = 0 \/ arrivals = {} THEN <<>>
     ELSE LET j == CHOOSE k \in arrivals : \A l \in arrivals : l <= k
          IN Append(stoneMoves(history, j - 1, history[j].from, n - 1),
                    [from |-> history[j].from, to |-> history[j].to])

\* the stone on cell A has moved A->B, B->A, A->B, B->A as its last four moves
hasShuttled(s, A, B) ==
  stoneMoves(s.moveHistory, Len(s.moveHistory), A, 4)
    = << [from |-> A, to |-> B], [from |-> B, to |-> A],
         [from |-> A, to |-> B], [from |-> B, to |-> A] >>

\* C11: with antiShuttle enabled, after one stone has moved A->B, B->A, A->B,
\* B->A as its four most recent moves, applyMove rejects that stone's fifth
\* move A->B with the anti-shuttle error.
C11_ShuttleRejected ==
  \A A \in Cells : \A B \in Range(neighbors(A)) :
    (/\ state.variant.antiShuttle
     /\ state.phase # "placement"
     /\ state.board[A] = state.current
     /\ state.board[B] = "null"
     /\ hasShuttled(state, A, B))
    => applyMoveError(state, A, B) = "Anti-shuttle rule prevents this move"

\* applyMove would accept the move but for the first-move rule
legalButForFirstMove(s, from, to) ==
  /\ s.phase # "placement"
  /\ s.board[from] = s.current
  /\ s.board[to] = "null"

\* C12: with firstMoveMustEnterCenter enabled, applyMove rejects every move
\* whose destination is not the center while moveHistory is empty, so the first
\* record of a non-empty moveHistory ends on the center; once moveHistory is
\* non-empty, or with the flag disabled, no move is rejected for this reason.
C12_FirstMoveEntersCenter ==
  /\ (state.variant.firstMoveMustEnterCenter /\ Len(state.moveHistory) > 0)
       => state.moveHistory[1].to = Center
  /\ \A from \in Cells : \A to \in Range(neighbors(from)) :
       /\ (/\ state.variant.firstMoveMustEnterCenter
           /\ Len(state.moveHistory) = 0
           /\ to # Center
           /\ legalButForFirstMove(state, from, to))
          => applyMoveError(state, from, to) = "First move must enter center"
       /\ (~state.variant.firstMoveMustEnterCenter \/ Len(state.moveHistory) > 0)
          => applyMoveError(state, from, to) # "First move must enter center"

\* the flag is on, the first move has entered the center although other empty
\* cells offered another destination, and a move that ends elsewhere is
\* accepted now
C12_Witness ==
  /\ state.variant.firstMoveMustEnterCenter
  /\ Len(state.moveHistory) = 1
  /\ state.moveHistory[1].to = Center
  /\ countStones(state, "Light") + countStones(state, "Dark")
       + Len(state.capturedLastMove) < 2 * STONES_PER_PLAYER
  /\ \E from \in Cells : \E to \in Range(neighbors(from)) :
       to # Center /\ applyMoveError(state, from, to) = "ok"

\* C13: in every state reached by successful applyPlacement calls (one or two
\* cells per call, at any placementCount < 2), stonesToPlace[p] is never below
\* 0 and never increases, and the phase leaves 'placement' only into a state
\* where both counters are exactly 0.
C13_StonesToPlaceCountsDown ==
  /\ [](\A p \in Players : state.stonesToPlace[p] >= 0)
  /\ [][/\ \A p \in Players : state'.stonesToPlace[p] <= state.stonesToPlace[p]
        /\ (state.phase = "placement" /\ state'.phase # "placement")
             => \A p \in Players : state'.stonesToPlace[p] = 0]_vars

\* the removeCell arguments tried: every cell of the board and two cells off it
RemovalArguments == Cells \cup {<<-1, 0>>, <<0, BOARD_SIZE>>}

\* C14: when blockadeOneRemoval is enabled and the current player has no legal
\* move, invokeBlockadeIfAny(state, cell) succeeds only if cell is in bounds and
\* holds a stone of the current player, and then exactly that cell becomes
\* empty while everything else is unchanged; for an empty cell, an opponent's
\* cell or a cell out of bounds it fails with 'Invalid stone to remove'.
C14_BlockadeRemovesOwnStone ==
  (state.variant.blockadeOneRemoval /\ ~hasAnyLegalMove(state, state.current)) =>
    \A cell \in RemovalArguments :
      IF inBounds(cell) /\ state.board[cell] = state.current
      THEN /\ invokeBlockadeIfAnyError(state, cell) = "ok"
           /\ invokeBlockadeIfAny(state, cell) = [state EXCEPT !.board[cell] = "null"]
      ELSE invokeBlockadeIfAnyError(state, cell) = "Invalid stone to remove"

\* the player to move is blocked with the variant enabled, holds stones, and
\* faces empty cells and stones of the opponent
C14_Witness ==
  /\ state.variant.blockadeOneRemoval
  /\ state.phase = "movement"
  /\ ~hasAnyLegalMove(state, state.current)
  /\ countStones(state, state.current) > 0
  /\ countStones(state, other(state.current)) > 0

\* removeCell arguments of every kind: none, off the board, and the first cell
\* in row-major order that is empty, holds a stone of the player to move, or
\* holds a stone of the opponent
RemovalSamples(s) ==
  LET first(owner) ==
        LET cells == SelectSeq(rowMajor, LAMBDA cell : s.board[cell] = owner)
        IN IF Len(cells) > 0 THEN {cells[1]} ELSE {}
  IN {undefinedCell, <<-1, 0>>, <<0, BOARD_SIZE>>}
       \cup first("null") \cup first(s.current) \cup first(other(s.current))

\* C15: invokeBlockadeIfAny returns the state unchanged, and raises no error,
\* whenever blockadeOneRemoval is disabled or the current player has a legal
\* move, whatever removeCell is supplied.
C15_NoBlockadeNoChange ==
  (~state.variant.blockadeOneRemoval \/ hasAnyLegalMove(state, state.current)) =>
    \A cell \in RemovalSamples(state) :
      /\ invokeBlockadeIfAnyError(state, cell) = "ok"
      /\ invokeBlockadeIfAny(state, cell) = state

\* the player to move is blocked and holds stones, but the variant is disabled
C15_Witness ==
  /\ ~state.variant.blockadeOneRemoval
  /\ state.phase = "movement"
  /\ ~hasAnyLegalMove(state, state.current)
  /\ countStones(state, state.current) > 0

\* C16: offerStalemate, called in any state without a winner (in any phase),
\* sets only the current player's offer flag and ends the game only if both
\* players' flags are set after the call.
C16_OfferEndsOnlyByAgreement ==
  [][(state.winner = "undefined" /\ state' = offerStalemate(state)) =>
       /\ state'.stalemateOffers[state.current]
       /\ state'.stalemateOffers[other(state.current)]
            = state.stalemateOffers[other(state.current)]
       /\ state'.winner # "undefined"
            => \A p \in Players : state'.stalemateOffers[p]]_vars

\* attempt storing the result of the call whether or not it threw
attempt_always(s, error, result) == result

\* the game state held by the caller after a call on s: the functions build
\* their result in a copy and throw before they write to it, and the caller
\* (try { newState = f(gameState, ...); set({ gameState: newState }) } catch)
\* keeps s when the call throws
attempt(s, error, result) == IF error = "ok" THEN result ELSE s

\* a cell off the board
offBoard == <<0, BOARD_SIZE>>

C18_EndChainPassesTurn ==
  /\ [](endChainError(state)
          = IF state.phase = "chain" THEN "ok" ELSE "Not in chain mode")
  /\ [][(state.phase = "chain" /\ state' = endChain(state)) =>
          /\ state'.phase = "movement"
          /\ state'.current = other(state.current)
          /\ state'.chainOrigin = undefinedCell
          /\ state'.board = state.board
          /\ state'.moveHistory = state.moveHistory
          /\ state'.stonesToPlace = state.stonesToPlace
          /\ state'.stalemateOffers = state.stalemateOffers
          /\ state'.winner = state.winner]_vars

\* a chain has been ended: the last move captured, the game is back in
\* movement phase without a chainOrigin, and the other player is to move
C18_Witness ==
  /\ Len(state.moveHistory) > 0
  /\ Len(state.capturedLastMove) > 0
  /\ state.phase = "movement"
  /\ state.chainOrigin = undefinedCell
  /\ state.board[lastMove(state).to] = other(state.current)

\* C19: in chain phase the AI move generator emits only movement actions whose
\* origin is chainOrigin.
C19_ChainMovesFromOrigin ==
  state.phase = "chain" =>
    \A move \in Range(generateAllMoves(state)) :
      move.type = "movement" /\ move.from = state.chainOrigin

\* the configurations searched
SearchConfigs ==
  {d \in DOMAIN DIFFICULTY_CONFIGS : DIFFICULTY_CONFIGS[d].depth <= SearchDepth}

\* the side the search plays for
searchPlayer == "Light"

\* the search of s for searchPlayer, maximizing when searchPlayer is to move
searchValue(s, difficulty, pruning) ==
  minimax(s, DIFFICULTY_CONFIGS[difficulty].depth, s.current = searchPlayer, searchPlayer,
          DIFFICULTY_CONFIGS[difficulty].weights, -Infinity, Infinity, pruning)

\* C20: for every state, depth and weight set, minimax with alpha-beta pruning
\* started with the full window returns the same value as the same recursion
\* run without the pruning cut-off.
C20_PruningKeepsValue ==
  \A difficulty \in SearchConfigs :
    LET pruned == searchValue(state, difficulty, TRUE)
        full == searchValue(state, difficulty, FALSE)
    IN pruned.thrown = full.thrown /\ pruned.value = full.value

\* moves have been made and a search of this state cuts branches off: with
\* pruning it visits fewer nodes than without
C20_Witness ==
  /\ Len(state.moveHistory) > 0
  /\ \E difficulty \in SearchConfigs :
       searchValue(state, difficulty, TRUE).nodes < searchValue(state, difficulty, FALSE).nodes

\* every node of the search minimax(s, depth, maximizingPlayer, player, ...)
\* makes without cut-off is a maximizing node exactly when player is to move
RECURSIVE nodesFollowTurn(_, _, _, _)
nodesFollowTurn(s, depth, maximizingPlayer, player) ==
  /\ maximizingPlayer = (s.current = player)
  /\ \/ depth = 0
     \/ checkWin(s).found
     \/ \A move \in Range(generateAllMoves(s)) :
          applyMoveToStateError(s, move) = "ok" =>
            nodesFollowTurn(applyMoveToState(s, move), depth - 1, ~maximizingPlayer, player)

\* the searches getBestAIMove starts from s: one per generated move
getBestAIMoveFollowsTurn(s, difficulty) ==
  \A move \in Range(generateAllMoves(s)) :
    applyMoveToStateError(s, move) = "ok" =>
      nodesFollowTurn(applyMoveToState(s, move), DIFFICULTY_CONFIGS[difficulty].depth - 1,
                      FALSE, s.current)

\* C21: at every node of the search, the node is a maximizing node exactly
\* when the simulated state's current player is the root player, also after an
\* action that leaves the turn with the same player (the first stone of a
\* placement turn, a capturing move that enters chain phase).
C21_NodesFollowTurn ==
  \A difficulty \in SearchConfigs : getBestAIMoveFollowsTurn(state, difficulty)

\* the movement actions generated in s that applyMove accepts
generatedMovements(s) ==
  {move \in Range(generateAllMoves(s)) :
     move.type = "movement" /\ applyMoveToStateError(s, move) = "ok"}

\* the stones the action captures
capturedBy(s, move) == Len(applyMoveToState(s, move).capturedLastMove)

\* the first of the moves with the highest score
RECURSIVE firstBest(_, _, _, _)
firstBest(moves, score(_), i, best) ==
  IF i > Len(moves) THEN moves[best]
  ELSE IF score(moves[i]) > score(moves[best]) THEN firstBest(moves, score, i + 1, i)
  ELSE firstBest(moves, score, i + 1, best)

\* C22: for a movement action that captures k >= 1 stones, the score by which
\* getBestAIMove and getTopMoves rank it is its minimax score plus
\* k * weights.captures, and getTopMoves describes it as capturing k stones;
\* an action that captures nothing gets no bonus. (getTopMovesScore is the
\* minimax score plus getTopMovesBonus, so the bonus is what is compared.)
C22_CaptureBonus ==
  /\ \A move \in generatedMovements(state) :
       LET k == capturedBy(state, move)
       IN /\ k >= 1 =>
               getTopMovesDescription(state, move)
                 = "Captures " \o ToString(k) \o (IF k > 1 THEN " stones" ELSE " stone")
          /\ getTopMovesBonus(state, move)
               = k * DIFFICULTY_CONFIGS["hard"].weights.captures
  /\ \A difficulty \in SearchConfigs :
       generatedMovements(state) # {} =>
         LET claimed(move) ==
               searchScore(state, move, difficulty)
                 + capturedBy(state, move) * DIFFICULTY_CONFIGS[difficulty].weights.captures
         IN getBestAIMove(state, difficulty)
              = firstBest(generateAllMoves(state), claimed, 2, 1)

\* the cells from movedTo in direction dir, nearest first
ray(movedTo, dir) ==
  [j \in 1..(BOARD_SIZE - 1) |-> <<movedTo[1] + j * dir[1], movedTo[2] + j * dir[2]>>]

\* the stones of the opponent that stand, in direction dir, between movedTo
\* and the nearest stone of the player with no other cell in between; the
\* center is walked over but never part of the line
boundedLine(board, movedTo, dir) ==
  LET player == board[movedTo]
      cells == ray(movedTo, dir)
      closes(m) ==
        /\ \A j \in 1..m : inBounds(cells[j]) /\ board[cells[j]] = other(player)
        /\ inBounds(cells[m + 1]) /\ board[cells[m + 1]] = player
  IN {cells[j] : j \in {k \in 1..(BOARD_SIZE - 2) :
                          \E m \in k..(BOARD_SIZE - 2) : closes(m)}} \ {Center}

appendsRecord(next, from, to) ==
  LET n == Len(state.moveHistory)
  IN /\ Len(next.moveHistory) = n + 1
     /\ \A i \in 1..n : next.moveHistory[i] = state.moveHistory[i]
     /\ next.moveHistory[n + 1].from = from
     /\ next.moveHistory[n + 1].to = to

\* C25: moveHistory is append-only: each successful applyMove or applyChainStep
\* appends exactly one record whose from and to are the cells of that move and
\* leaves all earlier records unchanged; applyPlacement, endChain,
\* invokeBlockadeIfAny, offerStalemate, rejectStalemate and resignGame leave
\* moveHistory unchanged.  The moves are those explored from the state.
C25_HistoryAppendOnly ==
  /\ withinHorizon(state) =>
       /\ \A from \in Cells : \A to \in Range(neighbors(from)) :
            applyMoveError(state, from, to) = "ok"
              => appendsRecord(applyMove(state, from, to), from, to)
       /\ \A to \in Cells :
            applyChainStepError(state, to) = "ok"
              => appendsRecord(applyChainStep(state, to), state.chainOrigin, to)
  /\ \A input \in PlacementInputs(state) :
       applyPlacementError(state, input[1], input[2]) = "ok"
         => applyPlacement(state, input[1], input[2]).moveHistory = state.moveHistory
  /\ endChainError(state) = "ok" => endChain(state).moveHistory = state.moveHistory
  /\ \A removeCell \in BlockadeInputs(state) :
       invokeBlockadeIfAnyError(state, removeCell) = "ok"
         => invokeBlockadeIfAny(state, removeCell).moveHistory = state.moveHistory
  /\ offerStalemate(state).moveHistory = state.moveHistory
  /\ \A player \in Players :
       /\ rejectStalemate(state, player).moveHistory = state.moveHistory
       /\ resignGame(state, player).moveHistory = state.moveHistory

\* a chain step has added a record behind the record of the capturing move,
\* which is still in its place
C25_Witness ==
  LET n == Len(state.moveHistory)
  IN /\ n >= 2
     /\ state.moveHistory[n].from = state.moveHistory[n - 1].to
     /\ state.moveHistory[n].to # state.moveHistory[n - 1].from

\* next.capturedLastMove lists, once each, the cells where a stone of the
\* opponent stood in state and no stone stands in next
holdsCaptured(next) ==
  LET taken == {cell \in Cells : /\ state.board[cell] = other(state.current)
                                 /\ next.board[cell] = "null"}
  IN /\ Range(next.capturedLastMove) = taken
     /\ Len(next.capturedLastMove) = Cardinality(taken)

\* C26: after every successful applyPlacement, applyMove or applyChainStep in a
\* game played from initialState7x7, capturedLastMove holds exactly the cells
\* captured by that operation - empty after a placement or a non-capturing
\* move - and never cells captured by an earlier operation.  The moves are
\* those explored from the state.
C26_CapturedLastMove ==
  /\ \A input \in PlacementInputs(state) :
       applyPlacementError(state, input[1], input[2]) = "ok"
         => /\ holdsCaptured(applyPlacement(state, input[1], input[2]))
            /\ applyPlacement(state, input[1], input[2]).capturedLastMove = <<>>
  /\ withinHorizon(state) =>
       /\ \A from \in Cells : \A to \in Range(neighbors(from)) :
            applyMoveError(state, from, to) = "ok"
              => holdsCaptured(applyMove(state, from, to))
       /\ \A to \in Cells :
            applyChainStepError(state, to) = "ok"
              => holdsCaptured(applyChainStep(state, to))

\* a chain step that captured nothing has followed a capture, and the cells
\* of that capture are no longer listed
C26_Witness ==
  LET n == Len(state.moveHistory)
  IN /\ n >= 2
     /\ state.moveHistory[n].from = state.moveHistory[n - 1].to
     /\ state.capturedLastMove = <<>>
     /\ state.phase = "movement"

\* player owns a stone next to an empty cell
hasFreeStone(s, player) ==
  \E cell \in Cells :
    s.board[cell] = player /\ \E to \in Range(neighbors(cell)) : s.board[to] = "null"

\* C27: shouldAIAcceptStalemate returns true, at every difficulty, whenever
\* the AI (the player to move) has no legal move while the opponent owns at
\* least one stone with an empty orthogonal neighbour.
C27_BlockedAIAccepts ==
  (/\ state.phase # "placement"
   /\ ~hasAnyLegalMove(state, state.current)
   /\ hasFreeStone(state, other(state.current)))
    => \A difficulty \in DOMAIN DIFFICULTY_CONFIGS :
         shouldAIAcceptStalemate(state, difficulty)

\* C28: in movement and chain phase, for either player P (whether or not P is
\* the player to move), hasAnyLegalMove(state, P) is true exactly when P owns
\* at least one stone that has an empty orthogonal neighbour.
C28_LegalMoveIffFreeStone ==
  state.phase \in {"movement", "chain"}
    => \A player \in Players :
         hasAnyLegalMove(state, player) <=> hasFreeStone(state, player)

\* C29: after any successful move that captures nothing (by applyMove or by
\* applyChainStep) and after endChain, chainOrigin is absent; equivalently, in
\* every reachable state with phase = 'movement', chainOrigin is undefined.
C29_NoChainOriginInMovement ==
  state.phase = "movement" => state.chainOrigin = undefinedCell

\* C30: in the store, when the human has an outstanding stalemate offer and,
\* on the AI's turn, shouldAIAcceptStalemate returns true, makeAIMove's
\* acceptance sets the AI's offer flag as well, so that both flags are set and
\* the game ends with winReason stalemate/mutual.
C30_AIAcceptanceEndsGame ==
  \A playerConfigs \in PlayerConfigs : \A difficulty \in DOMAIN DIFFICULTY_CONFIGS :
    (/\ playerConfigs[other(state.current)] = "human"
     /\ state.winner = "undefined"
     /\ acceptsStalemate(state, playerConfigs, difficulty))
      => LET newState == makeAIMoveAcceptStalemate(state, playerConfigs)
         IN /\ \A player \in Players : newState.stalemateOffers[player]
            /\ newState.winner # "undefined"
            /\ newState.winReason = [type |-> "stalemate", drawType |-> "mutual"]

\* the game of st is not over and the AI is to move
aiToMove(st) == st.gameState.winner = "undefined" /\ isAITurn(st.gameState, st.players)

\* no call of checkForAITurn is due and no makeAIMove is waiting
quiet(st) == st.timers = 0 /\ st.ai.pc = "idle"

\* C31: in the store, whenever the game is not over and it is the
\* AI-controlled player's turn, the timer-driven AI (checkForAITurn ->
\* makeAIMove) or a human click through selectCell eventually changes the game
\* state: the game never stays on the AI's turn forever with no enabled
\* action, including when the AI player is blocked (blockadeRemovalMode) or
\* has decided to accept a stalemate.  Once no timer is due and no makeAIMove
\* is waiting, only a click is left to change the game state.
C31_AITurnMakesProgress ==
  (aiToMove(state) /\ quiet(state) /\ state.saved = state.gameState)
    => \E cell \in Cells : selectCell(state, cell).gameState # state.gameState

\* the game of s has ended: there is a winner, or a draw with its reason
ended(s) == s.winner \in Players \/ (s.winner = "null" /\ s.winReason # noReason)

\* a makeAIMove that read the ended game st.gameState goes on and changes it
aiChangesEndedGame ==
  /\ ended(state.gameState)
  /\ state.ai.pc # "idle"
  /\ state.ai.gameState = state.gameState
  /\ state'.ai # state.ai
  /\ state'.gameState # state.gameState

\* the step switches blockadeRemovalMode on in a game that has ended
entersRemovalModeEnded ==
  /\ ended(state'.gameState)
  /\ state'.blockadeRemovalMode
  /\ ~state.blockadeRemovalMode

\* C32: in the store, once the game has ended - winner is a player, or winner
\* is null (draw) with a winReason set - checkForAITurn and makeAIMove never
\* change the game state again, and blockadeRemovalMode is not entered.
C32_EndedGameStaysPut == [][~aiChangesEndedGame /\ ~entersRemovalModeEnded]_vars

\* C33: the store's placeStone(cell) during placement yields the same game
\* state as the engine's applyPlacement would for that single cell, and leaves
\* the game state unchanged when applyPlacement would reject the cell (the
\* center, an occupied cell, or a cell out of bounds).  The cells are those of
\* the board.
C33_PlaceStoneAsApplyPlacement ==
  state.gameState.phase = "placement"
    => \A cell \in Cells :
         placeStone(state, cell).gameState
           = IF applyPlacementError(state.gameState, cell, undefinedCell) = "ok"
             THEN applyPlacement(state.gameState, cell, undefinedCell)
             ELSE state.gameState

\* the step is a makeAIMove going on after one of its delays
aiStep == state.ai.pc # "idle" /\ state'.ai # state.ai

\* the AI sets a stone on cell in this step
aiSetsStone(cell) ==
  /\ aiStep
  /\ state'.gameState.board[cell] \in Players
  /\ state'.gameState.board[cell] # state.gameState.board[cell]

\* C34: under every interleaving of store actions (newGame, loadSavedGame,
\* endChainCapture, endTurn, human clicks) with a pending makeAIMove, which
\* reads gameState, waits 500-1500 ms and then acts, every stone the AI places
\* or moves belongs to the AI-controlled player, and the action it applies is
\* legal in the game state that is current when it is applied.
C34_AIActsForItselfLegally ==
  [][\A cell \in Cells :
       aiSetsStone(cell) =>
         /\ state.players[state'.gameState.board[cell]] = "ai"
         /\ state.gameState.phase = "placement"
              => applyPlacementError(state.gameState, cell, undefinedCell) = "ok"
         /\ state.gameState.phase # "placement"
              => \E from \in Cells : applyMoveError(state.gameState, from, cell) = "ok"]_vars

\* every stone of player is on the board or still to place
stonesAccounted(s, player) ==
  countStones(s, player) + s.stonesToPlace[player] = STONES_PER_PLAYER

\* C35: during placement, after every successful applyPlacement (including
\* calls that pass a single cell or the same cell twice), for each player the
\* number of that player's stones on the board plus stonesToPlace[player]
\* equals 24.
C35_StonesAccounted ==
  (state.phase = "placement" /\ \A player \in Players : stonesAccounted(state, player))
    => \A cell1 \in Cells : \A cell2 \in {undefinedCell, cell1} \cup PlacementSamples(state) :
         applyPlacementError(state, cell1, cell2) = "ok"
           => \A player \in Players :
                stonesAccounted(applyPlacement(state, cell1, cell2), player)

\* C36: when placement is played from the initial state by applyPlacement
\* with two distinct legal cells per turn, the phase becomes 'movement' after
\* exactly 24 turns, and at that point every non-center cell is occupied, the
\* center is empty, each player has 24 stones on the board, and Light is the
\* player to move.
C36_PlacementCompletes ==
  LET s == state.gameState
  IN /\ state.turns < 24 => s.phase = "placement"
     /\ state.turns = 24 =>
          /\ s.phase = "movement"
          /\ \A cell \in Cells \ {Center} : s.board[cell] \in Players
          /\ s.board[Center] = "null"
          /\ \A player \in Players : countStones(s, player) = 24
          /\ s.current = "Light"
     /\ state.turns <= 24

\* the 24th turn has been played
C36_Witness == state.turns = 24 /\ state.gameState.phase = "movement"

\* the stone at cell stands between two stones of the other colour
standsBetween(s, cell) ==
  /\ s.board[cell] \in Players
  /\ \E i \in {1, 3} :
       /\ inBounds(step(cell, directions[i]))
       /\ inBounds(step(cell, directions[i + 1]))
       /\ s.board[step(cell, directions[i])] = other(s.board[cell])
       /\ s.board[step(cell, directions[i + 1])] = other(s.board[cell])

\* next, returned by a move of the player to move in state, has all the
\* mover's stones, and the opponent's but for those listed as captured
keepsCounts(next) ==
  /\ countStones(next, state.current) = countStones(state, state.current)
  /\ countStones(next, other(state.current))
       = countStones(state, other(state.current)) - Len(next.capturedLastMove)
  /\ \A cell \in Range(next.capturedLastMove) : next.board[cell] = "null"

\* C37: every successful applyMove or applyChainStep leaves the mover's stone
\* count unchanged (the moved stone is never removed, even when it enters
\* between two enemy stones), lowers the opponent's count by exactly the
\* number of cells in capturedLastMove, and leaves every cell listed in
\* capturedLastMove empty in the returned state.  The moves are those explored
\* from the state.
C37_MoverKeepsStones ==
  withinHorizon(state) =>
    /\ \A from \in Cells : \A to \in Range(neighbors(from)) :
         applyMoveError(state, from, to) = "ok"
           => LET next == applyMove(state, from, to)
              IN /\ keepsCounts(next)
                 /\ next.board[to] = state.current
    /\ \A to \in Cells :
         applyChainStepError(state, to) = "ok"
           => LET next == applyChainStep(state, to)
              IN /\ keepsCounts(next)
                 /\ next.board[to] = state.current

\* the last move has entered between two stones of the opponent, and the
\* moved stone stands there
C37_Witness ==
  LET n == Len(state.moveHistory)
  IN /\ n >= 1
     /\ standsBetween(state, state.moveHistory[n].to)

\* C38: after invokeBlockadeIfAny removes a stone of the blocked player, that
\* player, who is still the player to move, has at least one legal move (the
\* removal unsticks the game).
C38_RemovalUnsticks ==
  \A removeCell \in Cells :
    (/\ state.variant.blockadeOneRemoval
     /\ ~hasAnyLegalMove(state, state.current)
     /\ invokeBlockadeIfAnyError(state, removeCell) = "ok")
      => LET next == invokeBlockadeIfAny(state, removeCell)
         IN /\ next.current = state.current
            /\ hasAnyLegalMove(next, next.current)

\* next, returned by a move of the player to move in state, is in the chain
\* phase only if the move took a stone of the opponent
chainTakesStone(next) ==
  next.phase = "chain"
    => /\ Len(next.capturedLastMove) >= 1
       /\ countStones(next, other(state.current)) < countStones(state, other(state.current))

\* C39: a chain cannot go on forever: every applyMove or applyChainStep that
\* leaves the phase in 'chain' removes at least one opponent stone, so the
\* number of consecutive chain steps within one turn is bounded by the number
\* of opponent stones on the board when the chain began, after which the turn
\* passes or the chain is ended.  The moves are those explored from the state.
C39_ChainTakesStone ==
  withinHorizon(state) =>
    /\ \A from \in Cells : \A to \in Range(neighbors(from)) :
         applyMoveError(state, from, to) = "ok"
           => chainTakesStone(applyMove(state, from, to))
    /\ \A to \in Cells :
         applyChainStepError(state, to) = "ok"
           => chainTakesStone(applyChainStep(state, to))

====
